---- MODULE Spec2Model ----
(***************************************************************************)
(* A model of the Forth interpreter of src/forth.c: the three stacks, the  *)
(* dictionary, the memory arena, the compiler (code_buffer, branch stack,  *)
(* immediate control words), the threaded-code executor and the REPL.      *)
(*                                                                         *)
(* Cells are integers.  A word reference in a code vector is the address   *)
(* of the Word record; the model writes the address of the k-th dictionary *)
(* entry as WORD_BASE + k.  The executor is modelled one dispatched cell   *)
(* per step, with an explicit stack of frames for the recursion of         *)
(* execute_word; a primitive handler is one operator on the machine        *)
(* record, run to completion inside the step that calls it.                *)
(***************************************************************************)
EXTENDS Integers, Sequences, FiniteSets, TLC

\* ------------------------------------------------------------------------
\* Program constants (src/forth.h)
STACK_SIZE == 1024
DICT_SIZE == 1024
OP_LIT == -1
OP_BRANCH == -2
OP_0BRANCH == -3
OP_DO == -4
OP_LOOP == -5
\* execute_word takes a cell above this for the address of a Word
WORD_PTR_MIN == 1000
\* sizeof(Cell), the factor of cells_word
CELL_BYTES == 8
\* the addresses malloc returns for Word records: entry k lives at WORD_BASE + k
WORD_BASE == 100000

\* ------------------------------------------------------------------------
\* Bounds of the model
\* cells the executor may dispatch while one token is processed
MaxExecSteps == 70
\* tokens of input chosen freely after the scripted lines
MaxFreeTokens == 2

NULL == "NULL"
\* current_word == NULL: no Word record is under definition
NO_WORD == [name |-> NULL, immediate |-> FALSE]
\* current_word holds a cell that was stored over it: it points at no Word record
WILD_WORD == [name |-> "?", immediate |-> FALSE]

VARIABLES
    data_stack,     \* Stack data_stack: the cells stack[0..sp], bottom first
    return_stack,   \* Stack return_stack
    branch_stack,   \* BranchStack: records [origin, type], bottom first
    dict,           \* Dictionary: dict.words[0..count-1] as a sequence of Word records
    memory,         \* Cell memory[STACK_SIZE]: the cells written so far (the rest are 0)
    next_mem_addr,  \* int next_mem_addr
    state,          \* int state: 0 interpreting, 1 compiling
    code_buffer,    \* Cell code_buffer[STACK_SIZE]: the cells written so far
    code_sp,        \* int code_sp
    current_word,   \* Word *current_word: NULL or the record under definition
    input,          \* input_pos: the tokens of the current line not yet read
    out,            \* what was written to stdout
    err,            \* the messages written to stderr
    tok_err,        \* history: error() ran since the last token was read by repl
    line_err,       \* history: error() ran since the current line was read
    script,         \* the scripted lines stdin was given (never changes)
    lines,          \* the scripted lines stdin still holds
    free,           \* how many freely chosen tokens stdin may still deliver
    frames,         \* the activations of execute_word on compiled words: [word, i],
                    \* with the history fields rsp and errs: the depth of the return
                    \* stack and the number of messages when the activation began
    exec_steps,     \* cells dispatched since the last token was read
    exec_err,       \* history: error() ran inside execute_word since the last token
    oob,            \* history: the executor read a cell outside the word's code vector
    halt,           \* "no", "quit" (the quit line was read) or "crash" (the process
                    \* died: it is not followed)
    incr_first,     \* the build's order for `code_buffer[code_sp++] = (x - code_sp)`
    layout          \* what the build placed around code_buffer: "unknown" until a
                    \* store leaves the array, then "vars" (state and code_sp follow
                    \* it, the arena precedes it) or "arena" (the arena, then dict)

mvars == <<data_stack, return_stack, branch_stack, dict, memory, next_mem_addr, state,
           code_buffer, code_sp, current_word, input, out, err, tok_err, line_err>>
vars == <<mvars, script, lines, free, frames, exec_steps, exec_err, oob, halt, incr_first,
         layout>>

\* The machine state the handlers work on, as one record.
Machine ==
    [data_stack |-> data_stack, return_stack |-> return_stack,
     branch_stack |-> branch_stack, dict |-> dict, memory |-> memory,
     next_mem_addr |-> next_mem_addr, state |-> state, code_buffer |-> code_buffer,
     code_sp |-> code_sp, current_word |-> current_word, input |-> input,
     out |-> out, err |-> err, tok_err |-> tok_err, line_err |-> line_err,
     incr_first |-> incr_first, layout |-> layout, past_end |-> layout # "unknown"]

Install(m) ==
    /\ data_stack' = m.data_stack
    /\ return_stack' = m.return_stack
    /\ branch_stack' = m.branch_stack
    /\ dict' = m.dict
    /\ memory' = m.memory
    /\ next_mem_addr' = m.next_mem_addr
    /\ state' = m.state
    /\ code_buffer' = m.code_buffer
    /\ code_sp' = m.code_sp
    /\ current_word' = m.current_word
    /\ input' = m.input
    /\ out' = m.out
    /\ err' = m.err
    /\ tok_err' = m.tok_err
    /\ line_err' = m.line_err
    /\ layout' = IF m.past_end THEN m.layout ELSE "unknown"

\* A value returned together with the machine state the call leaves.
Ret(m, v) == [m |-> m, v |-> v]

\* ------------------------------------------------------------------------
\* error(): report, then reset the stacks and the compiler; the caller goes on.
error(m, msg) ==
    [m EXCEPT !.err = Append(@, msg),
              !.data_stack = <<>>,
              !.return_stack = <<>>,
              !.branch_stack = <<>>,
              !.state = 0,
              !.code_sp = 0,
              !.current_word = NO_WORD,
              !.tok_err = TRUE,
              !.line_err = TRUE]

\* ------------------------------------------------------------------------
\* Data stack
stack_push(m, value) ==
    IF Len(m.data_stack) - 1 >= STACK_SIZE - 1
    THEN error(m, "Stack overflow")
    ELSE [m EXCEPT !.data_stack = Append(@, value)]

stack_pop(m) ==
    IF Len(m.data_stack) - 1 < 0
    THEN Ret(error(m, "Stack underflow"), 0)
    ELSE Ret([m EXCEPT !.data_stack = SubSeq(@, 1, Len(@) - 1)],
             m.data_stack[Len(m.data_stack)])

stack_peek(m) ==
    IF Len(m.data_stack) - 1 < 0
    THEN Ret(error(m, "Stack underflow"), 0)
    ELSE Ret(m, m.data_stack[Len(m.data_stack)])

\* Return stack
\* rstack_push mutated to push without the test of sp
rstack_push_unchecked(m, value) == [m EXCEPT !.return_stack = Append(@, value)]

rstack_push(m, value) ==
    IF Len(m.return_stack) - 1 >= STACK_SIZE - 1
    THEN error(m, "Return stack overflow")
    ELSE [m EXCEPT !.return_stack = Append(@, value)]

rstack_pop(m) ==
    IF Len(m.return_stack) - 1 < 0
    THEN Ret(error(m, "Return stack underflow"), 0)
    ELSE Ret([m EXCEPT !.return_stack = SubSeq(@, 1, Len(@) - 1)],
             m.return_stack[Len(m.return_stack)])

rstack_peek(m) ==
    IF Len(m.return_stack) - 1 < 0
    THEN Ret(error(m, "Return stack underflow"), 0)
    ELSE Ret(m, m.return_stack[Len(m.return_stack)])

rstack_peek_n(m, n) ==
    IF Len(m.return_stack) - 1 < n
    THEN Ret(error(m, "Return stack underflow"), 0)
    ELSE Ret(m, m.return_stack[Len(m.return_stack) - n])

\* Branch stack
branch_stack_push(m, origin, type) ==
    IF Len(m.branch_stack) - 1 >= STACK_SIZE - 1
    THEN error(m, "Branch stack overflow")
    ELSE [m EXCEPT !.branch_stack = Append(@, [origin |-> origin, type |-> type])]

branch_stack_pop(m) ==
    IF Len(m.branch_stack) - 1 < 0
    THEN Ret(error(m, "Branch stack underflow"), [origin |-> 0, type |-> "CF_END"])
    ELSE Ret([m EXCEPT !.branch_stack = SubSeq(@, 1, Len(@) - 1)],
             m.branch_stack[Len(m.branch_stack)])

branch_stack_peek(m) ==
    IF Len(m.branch_stack) - 1 < 0
    THEN Ret(error(m, "Branch stack underflow"), [origin |-> 0, type |-> "CF_END"])
    ELSE Ret(m, m.branch_stack[Len(m.branch_stack)])

branch_stack_empty(m) == Len(m.branch_stack) - 1 < 0

\* ------------------------------------------------------------------------
\* Dictionary.  A Word record: name, func (the handler of a built-in, NULL for a
\* user-defined word), code (the code_size cells of its code vector), immediate.
Word(name, func, code, immediate) ==
    [name |-> name, func |-> func, code |-> code, immediate |-> immediate]

\* The address of the k-th entry (k = 1 for dict.words[0]) and back.
WordPtr(k) == WORD_BASE + k
IsWordPtr(m, item) == item - WORD_BASE \in 1..Len(m.dict)

\* Linear search from index 0: the first entry of that name; 0 stands for NULL.
dict_find(m, name) ==
    LET hits == {k \in 1..Len(m.dict) : m.dict[k].name = name}
    IN IF hits = {} THEN 0 ELSE CHOOSE k \in hits : \A j \in hits : k <= j

dict_add(m, word) ==
    IF Len(m.dict) >= DICT_SIZE
    THEN error(m, "Dictionary full")
    ELSE [m EXCEPT !.dict = Append(@, word)]

\* ------------------------------------------------------------------------
\* Memory.  mem_store and mem_fetch take an int: the cell is converted on the call.
IntBits == 16
RECURSIVE Pow2(_)
Pow2(n) == IF n = 0 THEN 1 ELSE 2 * Pow2(n - 1)
CellToInt(c) ==
    LET half == Pow2(IntBits - 1)
    IN ((c + half) % (2 * half)) - half

MemAt(m, addr) == IF addr \in DOMAIN m.memory THEN m.memory[addr] ELSE 0

mem_store(m, addr, value) ==
    IF addr < 0 \/ addr >= STACK_SIZE
    THEN error(m, "Invalid memory address")
    ELSE [m EXCEPT !.memory = (addr :> value) @@ @]

mem_fetch(m, addr) ==
    IF addr < 0 \/ addr >= STACK_SIZE
    THEN Ret(error(m, "Invalid memory address"), 0)
    ELSE Ret(m, MemAt(m, addr))

\* ------------------------------------------------------------------------
\* Output
print_cell(m, value) == [m EXCEPT !.out = @ \o ToString(value) \o " "]

RECURSIVE StackText(_)
StackText(s) == IF s = <<>> THEN "" ELSE ToString(Head(s)) \o " " \o StackText(Tail(s))

print_stack(m) == [m EXCEPT !.out = @ \o "< " \o StackText(m.data_stack) \o "> "]

cr(m) == [m EXCEPT !.out = @ \o "\n"]

\* ------------------------------------------------------------------------
\* Cell arithmetic as C computes it
TruncDiv(a, b) ==
    LET q == (IF a < 0 THEN -a ELSE a) \div (IF b < 0 THEN -b ELSE b)
    IN IF (a < 0) = (b < 0) THEN q ELSE -q
TruncMod(a, b) == a - b * TruncDiv(a, b)

RECURSIVE BitAnd(_, _)
BitAnd(a, b) ==
    IF a = 0 \/ b = 0 THEN 0
    ELSE IF a = -1 THEN b
    ELSE IF b = -1 THEN a
    ELSE (a % 2) * (b % 2) + 2 * BitAnd(a \div 2, b \div 2)
BitNot(a) == -a - 1
BitOr(a, b) == BitNot(BitAnd(BitNot(a), BitNot(b)))
Flag(b) == IF b THEN -1 ELSE 0

\* A handler that pops b, then a, and pushes f(a, b).
Binary(m, Op(_, _)) ==
    LET pb == stack_pop(m)
        pa == stack_pop(pb.m)
    IN stack_push(pa.m, Op(pa.v, pb.v))

Add(a, b) == a + b
Sub(a, b) == a - b
Mul(a, b) == a * b
plus(m) == Binary(m, Add)
minus(m) == Binary(m, Sub)
star(m) == Binary(m, Mul)

slash(m) ==
    LET pb == stack_pop(m)
    IN IF pb.v = 0
       THEN error(pb.m, "Division by zero")
       ELSE LET pa == stack_pop(pb.m)
            IN stack_push(pa.m, TruncDiv(pa.v, pb.v))

mod(m) ==
    LET pb == stack_pop(m)
    IN IF pb.v = 0
       THEN error(pb.m, "Modulo by zero")
       ELSE LET pa == stack_pop(pb.m)
            IN stack_push(pa.m, TruncMod(pa.v, pb.v))

\* ------------------------------------------------------------------------
\* Stack words
dup(m) ==
    LET p == stack_peek(m)
    IN stack_push(p.m, p.v)

drop(m) == stack_pop(m).m

swap(m) ==
    LET pb == stack_pop(m)
        pa == stack_pop(pb.m)
    IN stack_push(stack_push(pa.m, pb.v), pa.v)

over(m) ==
    LET pb == stack_pop(m)
        pa == stack_pop(pb.m)
    IN stack_push(stack_push(stack_push(pa.m, pa.v), pb.v), pa.v)

\* rot mutated to rotate the other way
rot_backwards(m) ==
    LET pc == stack_pop(m)
        pb == stack_pop(pc.m)
        pa == stack_pop(pb.m)
    IN stack_push(stack_push(stack_push(pa.m, pc.v), pa.v), pb.v)

rot(m) ==
    LET pc == stack_pop(m)
        pb == stack_pop(pc.m)
        pa == stack_pop(pb.m)
    IN stack_push(stack_push(stack_push(pa.m, pb.v), pc.v), pa.v)

nip(m) ==
    LET pb == stack_pop(m)
        pa == stack_pop(pb.m)
    IN stack_push(pa.m, pb.v)

tuck(m) ==
    LET pb == stack_pop(m)
        pa == stack_pop(pb.m)
    IN stack_push(stack_push(stack_push(pa.m, pb.v), pa.v), pb.v)

\* Comparisons
Eq(a, b) == Flag(a = b)
Lt(a, b) == Flag(a < b)
Gt(a, b) == Flag(a > b)
Le(a, b) == Flag(a <= b)
Ge(a, b) == Flag(a >= b)
Ne(a, b) == Flag(a # b)
equal(m) == Binary(m, Eq)
less_than(m) == Binary(m, Lt)
greater_than(m) == Binary(m, Gt)
less_equal(m) == Binary(m, Le)
greater_equal(m) == Binary(m, Ge)
not_equal(m) == Binary(m, Ne)

\* Bitwise words
and_op(m) == Binary(m, BitAnd)
or_op(m) == Binary(m, BitOr)
not_op(m) ==
    LET pa == stack_pop(m)
    IN stack_push(pa.m, BitNot(pa.v))

\* Memory words
store(m) ==
    LET paddr == stack_pop(m)
        pvalue == stack_pop(paddr.m)
    IN mem_store(pvalue.m, CellToInt(paddr.v), pvalue.v)

fetch(m) ==
    LET paddr == stack_pop(m)
        pvalue == mem_fetch(paddr.m, CellToInt(paddr.v))
    IN stack_push(pvalue.m, pvalue.v)

\* ------------------------------------------------------------------------
\* Tokenizer.  A line is the sequence of its whitespace-separated tokens.
tokenize(m) ==
    IF m.input = <<>>
    THEN Ret(m, NULL)
    ELSE Ret([m EXCEPT !.input = Tail(@)], Head(m.input))

\* parse_string reads up to the closing quote, here a token of its own; the text
\* is every token before it with the blank that followed it.  Without a closing
\* quote the rest of the line is consumed and NULL returned.
QUOTE == "\""
RECURSIVE StringTail(_, _)
StringTail(toks, acc) ==
    IF toks = <<>> THEN [found |-> FALSE, str |-> acc, rest |-> <<>>]
    ELSE IF Head(toks) = QUOTE THEN [found |-> TRUE, str |-> acc, rest |-> Tail(toks)]
    ELSE StringTail(Tail(toks), acc \o Head(toks) \o " ")

parse_string(m) ==
    LET t == StringTail(m.input, "")
    IN Ret([m EXCEPT !.input = t.rest], IF t.found THEN t.str ELSE NULL)

\* strtoll(token, &endptr, base) with *endptr == '\0': the token is the numeral of
\* a cell.  Numerals are the decimal renderings printf("%lld") gives.
NumRange == -12 .. 50
Numeral == [n \in NumRange |-> ToString(n)]
IsNumber(token) == \E n \in NumRange : Numeral[n] = token
strtoll(token) == CHOOSE n \in NumRange : Numeral[n] = token

\* ------------------------------------------------------------------------
\* Defining words.  malloc does not initialise the record and none of them sets
\* `immediate`: u is the value the field happens to hold.
UserWord(name, code, u) == Word(name, NULL, code, u)

create_word(m, u) ==
    LET t == tokenize(m)
    IN IF t.v = NULL
       THEN error(t.m, "CREATE needs a name")
       ELSE dict_add(t.m, UserWord(t.v, <<OP_LIT, t.m.next_mem_addr>>, u))

variable_word(m, u) ==
    LET t == tokenize(m)
    IN IF t.v = NULL
       THEN error(t.m, "VARIABLE needs a name")
       ELSE LET addr == t.m.next_mem_addr
                m1 == [t.m EXCEPT !.next_mem_addr = @ + 1]
            IN dict_add(m1, UserWord(t.v, <<OP_LIT, addr>>, u))

constant_word(m, u) ==
    LET t == tokenize(m)
    IN IF t.v = NULL
       THEN error(t.m, "CONSTANT needs a name")
       ELSE LET p == stack_pop(t.m)
            IN dict_add(p.m, UserWord(t.v, <<OP_LIT, p.v>>, u))

\* ------------------------------------------------------------------------
\* I/O and memory-cursor words
dot(m) ==
    LET p == stack_pop(m)
    IN print_cell(p.m, p.v)

dot_s(m) == print_stack(m)

dot_quote(m) ==
    LET p == parse_string(m)
    IN IF p.v = NULL
       THEN error(p.m, "Expected string after .\"")
       ELSE [p.m EXCEPT !.out = @ \o p.v]

cells_word(m) ==
    LET p == stack_pop(m)
    IN stack_push(p.m, p.v * CELL_BYTES)

allot_word(m) ==
    LET p == stack_pop(m)
    IN [p.m EXCEPT !.next_mem_addr = CellToInt(@ + p.v)]

i_word(m) ==
    LET p == rstack_peek(m)
    IN stack_push(p.m, p.v)

j_word(m) ==
    LET p == rstack_peek_n(m, 2)
    IN stack_push(p.m, p.v)

\* ------------------------------------------------------------------------
\* The compile buffer
\* code_buffer[k] with k outside 0..STACK_SIZE-1 is a cell of the objects the
\* build placed around the array.  gcc -O2 places the memory arena and then
\* dict.words after it ("arena"); gcc -O0 places the arena before it and state,
\* code_sp, current_word and next_mem_addr after it ("vars").
\* A slot of dict.words that no longer holds the address of a Word record
Smashed == Word(NULL, NULL, <<>>, FALSE)
BufAt(m, k) ==
    IF k < STACK_SIZE
    THEN IF k \in DOMAIN m.code_buffer THEN m.code_buffer[k] ELSE 0
    ELSE IF k < 2 * STACK_SIZE THEN MemAt(m, k - STACK_SIZE)
    ELSE 0
\* The store in the "arena" layout: memory[k - STACK_SIZE], then the pointers of
\* dict.words.
SetArena(m, k, v) ==
    IF k < 2 * STACK_SIZE
    THEN [m EXCEPT !.memory = ((k - STACK_SIZE) :> v) @@ @]
    ELSE IF k - 2 * STACK_SIZE < Len(m.dict)
    THEN [m EXCEPT !.dict[k - 2 * STACK_SIZE + 1] = Smashed]
    ELSE m
\* The store in the "vars" layout: the cell after the array holds state (its low
\* half) and code_sp (its high half), the next ones current_word and
\* next_mem_addr; the cells before the array are the end of the arena.
SetVars(m, k, v) ==
    IF k < 0
    THEN [m EXCEPT !.memory = ((STACK_SIZE + k) :> v) @@ @]
    ELSE IF k = STACK_SIZE
    THEN [m EXCEPT !.state = CellToInt(v),
                   !.code_sp = CellToInt(v \div Pow2(IntBits))]
    ELSE IF k = STACK_SIZE + 1
    THEN [m EXCEPT !.current_word = IF v = 0 THEN NO_WORD ELSE WILD_WORD]
    ELSE IF k = STACK_SIZE + 2
    THEN [m EXCEPT !.next_mem_addr = CellToInt(v)]
    ELSE m
\* code_buffer[k] = v
SetBuf(m, k, v) ==
    IF 0 <= k /\ k < STACK_SIZE
    THEN [m EXCEPT !.code_buffer = (k :> v) @@ @]
    ELSE IF m.layout = "vars"
    THEN SetVars([m EXCEPT !.past_end = TRUE], k, v)
    ELSE SetArena([m EXCEPT !.past_end = TRUE], k, v)
\* Emit mutated to code_buffer[++code_sp] = v
Emit_preincrement(m, v) == [SetBuf(m, m.code_sp + 1, v) EXCEPT !.code_sp = @ + 1]
\* code_buffer[code_sp++] = v: code_sp is incremented, then the cell is stored
\* (a store over code_sp itself is what remains).
Emit(m, v) == SetBuf([m EXCEPT !.code_sp = @ + 1], m.code_sp, v)

\* code_buffer[code_sp++] = (x - code_sp): the increment and the read of code_sp
\* are unsequenced.  The cell written is the one at the old code_sp; the value
\* subtracts the old code_sp or the incremented one, as the build orders them.
EmitRelative(m, x) ==
    Emit(m, IF m.incr_first THEN x - (m.code_sp + 1) ELSE x - m.code_sp)

\* ------------------------------------------------------------------------
\* Control-flow words
if_word(m) ==
    IF m.state # 0
    THEN LET m1 == branch_stack_push(m, m.code_sp, "CF_IF")
         IN Emit(Emit(Emit(m1, OP_0BRANCH), OP_LIT), 0)
    ELSE error(m, "IF used outside of compilation mode")

\* then_word mutated to measure its offset from the cell before the operand
then_word_offbyone(m) ==
    IF m.state # 0
    THEN IF branch_stack_empty(m)
         THEN error(m, "THEN without matching IF")
         ELSE LET p == branch_stack_pop(m)
              IN IF p.v.type # "CF_IF" /\ p.v.type # "CF_ELSE"
                 THEN error(p.m, "THEN without matching IF")
                 ELSE SetBuf(p.m, p.v.origin + 2, p.m.code_sp - (p.v.origin + 1))
    ELSE error(m, "THEN used outside of compilation mode")

then_word(m) ==
    IF m.state # 0
    THEN IF branch_stack_empty(m)
         THEN error(m, "THEN without matching IF")
         ELSE LET p == branch_stack_pop(m)
              IN IF p.v.type # "CF_IF" /\ p.v.type # "CF_ELSE"
                 THEN error(p.m, "THEN without matching IF")
                 ELSE SetBuf(p.m, p.v.origin + 2, p.m.code_sp - (p.v.origin + 2))
    ELSE error(m, "THEN used outside of compilation mode")

else_word(m) ==
    IF m.state # 0
    THEN IF branch_stack_empty(m)
         THEN error(m, "ELSE without matching IF")
         ELSE LET entry == branch_stack_peek(m).v
              IN IF entry.type # "CF_IF"
                 THEN error(m, "ELSE without matching IF")
                 ELSE LET else_branch_origin == m.code_sp
                          m1 == Emit(Emit(Emit(m, OP_BRANCH), OP_LIT), 0)
                          if_offset == (m1.code_sp + 3) - (entry.origin + 2)
                          m2 == SetBuf(m1, entry.origin + 2, if_offset)
                      IN branch_stack_push(branch_stack_pop(m2).m, else_branch_origin, "CF_ELSE")
    ELSE error(m, "ELSE used outside of compilation mode")

end_word(m) == m

begin_word(m) ==
    IF m.state # 0
    THEN branch_stack_push(m, m.code_sp, "CF_BEGIN")
    ELSE error(m, "BEGIN used outside of compilation mode")

\* until_word mutated to measure its offset from the cell after BEGIN's
until_word_offbyone(m) ==
    IF m.state # 0
    THEN IF branch_stack_empty(m)
         THEN error(m, "UNTIL without matching BEGIN")
         ELSE LET p == branch_stack_pop(m)
              IN IF p.v.type # "CF_BEGIN"
                 THEN error(p.m, "UNTIL without matching BEGIN")
                 ELSE EmitRelative(Emit(Emit(p.m, OP_0BRANCH), OP_LIT), p.v.origin + 1)
    ELSE error(m, "UNTIL used outside of compilation mode")

until_word(m) ==
    IF m.state # 0
    THEN IF branch_stack_empty(m)
         THEN error(m, "UNTIL without matching BEGIN")
         ELSE LET p == branch_stack_pop(m)
              IN IF p.v.type # "CF_BEGIN"
                 THEN error(p.m, "UNTIL without matching BEGIN")
                 ELSE EmitRelative(Emit(Emit(p.m, OP_0BRANCH), OP_LIT), p.v.origin)
    ELSE error(m, "UNTIL used outside of compilation mode")

while_word(m) ==
    IF m.state # 0
    THEN IF branch_stack_empty(m)
         THEN error(m, "WHILE without matching BEGIN")
         ELSE LET entry == branch_stack_peek(m).v
              IN IF entry.type # "CF_BEGIN"
                 THEN error(m, "WHILE without matching BEGIN")
                 ELSE LET m1 == branch_stack_push(m, m.code_sp, "CF_WHILE")
                      IN Emit(Emit(Emit(m1, OP_0BRANCH), OP_LIT), 0)
    ELSE error(m, "WHILE used outside of compilation mode")

repeat_word(m) ==
    IF m.state # 0
    THEN IF branch_stack_empty(m)
         THEN error(m, "REPEAT without matching BEGIN-WHILE")
         ELSE LET pw == branch_stack_pop(m)
              IN IF pw.v.type # "CF_WHILE"
                 THEN error(pw.m, "REPEAT without matching WHILE")
                 ELSE IF branch_stack_empty(pw.m)
                 THEN error(pw.m, "REPEAT without matching BEGIN")
                 ELSE LET pb == branch_stack_pop(pw.m)
                      IN IF pb.v.type # "CF_BEGIN"
                         THEN error(pb.m, "REPEAT without matching BEGIN")
                         ELSE LET m1 == EmitRelative(Emit(Emit(pb.m, OP_BRANCH), OP_LIT),
                                                     pb.v.origin)
                              IN SetBuf(m1, pw.v.origin + 2, m1.code_sp - (pw.v.origin + 2))
    ELSE error(m, "REPEAT used outside of compilation mode")

\* do_word mutated to compile whatever the mode is
do_word_unguarded(m) == Emit(branch_stack_push(m, m.code_sp, "CF_DO"), OP_DO)

do_word(m) ==
    IF m.state # 0
    THEN Emit(branch_stack_push(m, m.code_sp, "CF_DO"), OP_DO)
    ELSE error(m, "DO used outside of compilation mode")

loop_word(m) ==
    IF m.state # 0
    THEN IF branch_stack_empty(m)
         THEN error(m, "LOOP without matching DO")
         ELSE LET p == branch_stack_pop(m)
              IN IF p.v.type # "CF_DO"
                 THEN error(p.m, "LOOP without matching DO")
                 ELSE EmitRelative(Emit(Emit(p.m, OP_LOOP), OP_LIT), p.v.origin + 1)
    ELSE error(m, "LOOP used outside of compilation mode")

\* ------------------------------------------------------------------------
\* : and ;
\* colon mutated to skip the check that the name is already defined
colon_unchecked(m, u) ==
    LET t == tokenize(m)
    IN IF t.v = NULL
       THEN error(t.m, "Expected word name after :\"")
       ELSE [t.m EXCEPT !.current_word = [name |-> t.v, immediate |-> u],
                        !.state = 1,
                        !.code_sp = 0]

colon(m, u) ==
    LET t == tokenize(m)
    IN IF t.v = NULL
       THEN error(t.m, "Expected word name after :\"")
       ELSE IF dict_find(t.m, t.v) # 0
       THEN error(t.m, "Word already exists")
       ELSE [t.m EXCEPT !.current_word = [name |-> t.v, immediate |-> u],
                        !.state = 1,
                        !.code_sp = 0]

semicolon(m) ==
    IF m.state = 0
    THEN error(m, "Misplaced ;")
    ELSE IF m.current_word = NO_WORD
    THEN error(m, "No word being defined")
    ELSE LET code == [k \in 1..m.code_sp |-> BufAt(m, k - 1)]
             m1 == dict_add(m, UserWord(m.current_word.name, code,
                                        m.current_word.immediate))
         IN [m1 EXCEPT !.state = 0, !.current_word = NO_WORD, !.code_sp = 0]

\* ------------------------------------------------------------------------
\* forth_init: the built-in words in the order they are added, with the handler
\* each names and its immediate flag.
Builtin(name, func, immediate) == Word(name, func, <<>>, immediate)

forth_init_dict ==
    << Builtin("+", "plus", FALSE), Builtin("-", "minus", FALSE),
       Builtin("*", "star", FALSE), Builtin("/", "slash", FALSE),
       Builtin("mod", "mod", FALSE), Builtin("dup", "dup", FALSE),
       Builtin("drop", "drop", FALSE), Builtin("swap", "swap", FALSE),
       Builtin("over", "over", FALSE), Builtin("rot", "rot", FALSE),
       Builtin("nip", "nip", FALSE), Builtin("tuck", "tuck", FALSE),
       Builtin("=", "equal", FALSE), Builtin("<", "less_than", FALSE),
       Builtin(">", "greater_than", FALSE), Builtin("<=", "less_equal", FALSE),
       Builtin(">=", "greater_equal", FALSE), Builtin("<>", "not_equal", FALSE),
       Builtin("and", "and_op", FALSE), Builtin("or", "or_op", FALSE),
       Builtin("not", "not_op", FALSE), Builtin("!", "store", FALSE),
       Builtin("@", "fetch", FALSE), Builtin("CREATE", "create_word", FALSE),
       Builtin("VARIABLE", "variable_word", FALSE),
       Builtin("CONSTANT", "constant_word", FALSE), Builtin(".", "dot", FALSE),
       Builtin(".\"", "dot_quote", TRUE), Builtin("cells", "cells_word", FALSE),
       Builtin("allot", "allot_word", FALSE), Builtin("i", "i_word", FALSE),
       Builtin("j", "j_word", FALSE), Builtin(".s", "dot_s", FALSE),
       Builtin("cr", "cr", FALSE), Builtin("if", "if_word", TRUE),
       Builtin("then", "then_word", TRUE), Builtin("else", "else_word", TRUE),
       Builtin("begin", "begin_word", TRUE), Builtin("until", "until_word", TRUE),
       Builtin("while", "while_word", TRUE), Builtin("repeat", "repeat_word", TRUE),
       Builtin("do", "do_word", TRUE), Builtin("loop", "loop_word", TRUE),
       Builtin("end", "end_word", TRUE), Builtin(":", "colon", TRUE),
       Builtin(";", "semicolon", TRUE) >>

\* word->func(): the handler a built-in names.
CallFunc(func, m, u) ==
    CASE func = "plus" -> plus(m)
      [] func = "minus" -> minus(m)
      [] func = "star" -> star(m)
      [] func = "slash" -> slash(m)
      [] func = "mod" -> mod(m)
      [] func = "dup" -> dup(m)
      [] func = "drop" -> drop(m)
      [] func = "swap" -> swap(m)
      [] func = "over" -> over(m)
      [] func = "rot" -> rot(m)
      [] func = "nip" -> nip(m)
      [] func = "tuck" -> tuck(m)
      [] func = "equal" -> equal(m)
      [] func = "less_than" -> less_than(m)
      [] func = "greater_than" -> greater_than(m)
      [] func = "less_equal" -> less_equal(m)
      [] func = "greater_equal" -> greater_equal(m)
      [] func = "not_equal" -> not_equal(m)
      [] func = "and_op" -> and_op(m)
      [] func = "or_op" -> or_op(m)
      [] func = "not_op" -> not_op(m)
      [] func = "store" -> store(m)
      [] func = "fetch" -> fetch(m)
      [] func = "create_word" -> create_word(m, u)
      [] func = "variable_word" -> variable_word(m, u)
      [] func = "constant_word" -> constant_word(m, u)
      [] func = "dot" -> dot(m)
      [] func = "dot_quote" -> dot_quote(m)
      [] func = "cells_word" -> cells_word(m)
      [] func = "allot_word" -> allot_word(m)
      [] func = "i_word" -> i_word(m)
      [] func = "j_word" -> j_word(m)
      [] func = "dot_s" -> dot_s(m)
      [] func = "cr" -> cr(m)
      [] func = "if_word" -> if_word(m)
      [] func = "then_word" -> then_word(m)
      [] func = "else_word" -> else_word(m)
      [] func = "begin_word" -> begin_word(m)
      [] func = "until_word" -> until_word(m)
      [] func = "while_word" -> while_word(m)
      [] func = "repeat_word" -> repeat_word(m)
      [] func = "do_word" -> do_word(m)
      [] func = "loop_word" -> loop_word(m)
      [] func = "end_word" -> end_word(m)
      [] func = "colon" -> colon(m, u)
      [] func = "semicolon" -> semicolon(m)

\* The handlers that malloc a Word and leave its `immediate` field as found.
Allocates(func) == func \in {"create_word", "variable_word", "constant_word", "colon"}
Uninit(word) == IF Allocates(word.func) THEN BOOLEAN ELSE {FALSE}

\* ------------------------------------------------------------------------
\* Input: the scripted lines stdin delivers first, each a sequence of tokens.
IfElseScript ==
    << <<":", "T", "dup", "0", "<", "if", "-1", "else", "1", "then", ";">>,
       <<"-7", "T", ".">>, <<"0", "T", ".">>, <<"42", "T", ".">> >>
LoopScript ==
    << <<":", "T", "10", "0", "do", "i", ".", "loop", ";">>, <<"T">> >>
NestedScript ==
    << <<":", "T", "3", "0", "do", "2", "0", "do", "j", "i", "+", ".", "loop", "loop", ";">>,
       <<"T">> >>
UntilScript ==
    << <<":", "T", "begin", "dup", "1", "-", "dup", "0", "=", "until", "drop", ";">>,
       <<"5", "T">> >>
VariableScript ==
    << <<"variable", "x", "42", "x", "!", "x", "@", ".">> >>
UpperVariableScript ==
    << <<"VARIABLE", "x", "42", "x", "!", "x", "@", ".">> >>
UnderflowScript ==
    << <<"+">>, <<"1", "2", "+", ".">> >>
DuplicateScript ==
    << <<":", "foo", "1", ";">>, <<":", "foo", "2", ";">>, <<"foo", ".">> >>
AbandonScript ==
    << <<":", "w", "drop", "7", ".", ";">>, <<"w">> >>
CallerScript ==
    << <<":", "w", "1", "0", "/", "8", ";">>, <<":", "v", "w", "9", ".", ";">>, <<"v">> >>
SameLineScript ==
    << <<"5", "+", "7", ".s">>, <<".s">> >>
CompileErrorScript ==
    << <<":", "a", "then", "3", ".">>, <<":", "b", "zz", "4", ".">>, <<"4", ".">> >>
ElseLongScript ==
    << <<":", "E", "if", "1", "else", "2", "3", "then", ";">>, <<"0", "E", ".s">> >>
ConstantScript ==
    << <<"12", "CONSTANT", "c", "c", "c", "+", ".">>, <<"CREATE", "d", "d", ".">> >>
WhileScript ==
    << <<":", "W", "begin", "dup", "while", "1", "-", "repeat", ";">>, <<"2", "W", ".s">> >>
QuitScript ==
    << <<"1", ".">>, <<"quit">>, <<"2", ".">> >>

UnclosedScript ==
    << <<":", "u", "if", ";">>, <<":", "v", "1", "2", "then", ";">>, <<"v", ".s">> >>
MakerScript ==
    << <<":", "mk", "CREATE", ";">>, <<":", "foo", "mk", "foo", "7", ";">>, <<"foo", ".">> >>
DotQuoteScript ==
    << <<":", "g", ".\"", "hi", QUOTE, ";">>, <<"g", "g">>, <<".\"", "now", QUOTE>> >>
CloserScript ==
    << <<":", "a", "then">>, <<":", "a", "else">>, <<":", "a", "until">>,
       <<":", "a", "while">>, <<":", "a", "repeat">>, <<":", "a", "begin", "repeat">>,
       <<":", "a", "loop">>, <<":", "a", "if", "until">>, <<":", "a", "do", "then">>,
       <<":", "a", "zz">>, <<":", "a", "1", ";">>, <<"a", ".">> >>
MakerAbortScript ==
    << <<":", "mk", "CREATE", ";">>, <<":", "foo", "mk", "foo", "zz">>,
       <<":", "foo", "7", ";">>, <<"foo", ".">> >>
ControlScript ==
    << <<"if">>, <<"else">>, <<"then">>, <<"begin">>, <<"until">>, <<"while">>,
       <<"repeat">>, <<"do">>, <<"loop">>, <<";">> >>
StackWordsScript ==
    << <<"1", "2", "3", "rot">>, <<"swap">>, <<"over">>, <<"nip">>, <<"4", "tuck">>,
       <<"dup", "drop">>, <<"+", "-", "*">>, <<"7", "2", "/", "3", "mod">>,
       <<"3", "4", "<", "5", ">", "6", "<=", "7", ">=", "8", "<>", "9", "=">>,
       <<"6", "and", "3", "or", "not">>, <<"9", "0", "!", "0", "@">>,
       <<"cells", ".", "3", "allot">>, <<"5", "0", "/">> >>
WrapScript ==
    << <<"7", "16", "16", "*", "dup", "*", "8", "*", "5", "+", "!">>, <<"5", "@", ".">> >>
AllotScript ==
    << <<"VARIABLE", "x", "3", "allot", "CREATE", "d", "d", ".">>,
       <<"-5", "allot", "VARIABLE", "y", "y", ".">> >>
\* a definition of 683 `if` (3 cells each): the 342nd passes the end of the
\* compile buffer, the 683rd the end of the arena
Ifs(n) == [p \in 1..n |-> "if"]
OverflowScript ==
    << <<":", "w">>, Ifs(50), Ifs(50), Ifs(50), Ifs(50), Ifs(50), Ifs(50), Ifs(41),
       <<"if">>, Ifs(50), Ifs(50), Ifs(50), Ifs(50), Ifs(50), Ifs(50), Ifs(41),
       <<"1", "2", "+", ".">> >>
RedefineScript ==
    << <<"VARIABLE", "x", "7", "x", "!">>, <<"5", "CONSTANT", "x", "x", ".">>,
       <<"9", "CONSTANT", "dup", "3", "dup", ".s">>, <<"CREATE", "x", "x", ".">> >>
SelfReferenceScript ==
    << <<":", "f", "f", ";">>, <<"f">> >>
IfThenScript ==
    << <<":", "T", "if", "7", ".", "then", "8", ".", ";">>, <<"0", "T">>,
       <<"1", "T", ".s">> >>
DoOnceScript ==
    << <<":", "T", "3", "5", "do", "7", ".", "loop", ";">>, <<"T">>,
       <<":", "U", "5", "5", "do", "8", ".", "loop", ";">>, <<"U">> >>
\* n lines, each the tokens `line`
Lines(n, line) == [k \in 1..n |-> line]
Ones(n) == [p \in 1..n |-> "1"]
Dos(n) == [p \in 1..n |-> "do"]
\* 1025 numbers typed in interpret mode: one more than the data stack holds
FullStackScript ==
    Lines(20, Ones(50)) \o << Ones(24), <<"1">>, <<"2", "3", ".s">> >>
\* a definition of 1025 `do`: one more than the branch stack holds
BranchFullScript ==
    << <<":", "w">> >> \o Lines(20, Dos(50)) \o << Dos(24), <<"do", ".s">>, <<":", "w", "1", ";">>,
       <<"w", ".">> >>
\* `1 1 D` typed 513 times, D being an unclosed `do`: each run leaves limit and
\* index on the return stack, which holds 512 such pairs
OneOneD(n) == [p \in 1..(3 * n) |-> <<"1", "1", "D">>[((p - 1) % 3) + 1]]
ReturnFullScript ==
    << <<":", "D", "do", ";">> >> \o Lines(25, OneOneD(20)) \o << OneOneD(12), <<"1", "1", "D", ".s">>,
       <<"i", ".">> >>
\* the else-part holds the literals 2, -2, -2: called with flag 0
SpinScript ==
    << <<":", "E", "if", "1", "else", "2", "-2", "-2", "then", ";">>, <<"1", "E", ".s">>,
       <<"0", "E", ".s">> >>
\* t's DO and LOOP are paired inside an else-part; u calls t inside its own loop
BalanceScript ==
    << <<":", "t", "if", "else", "1", "do", "loop", "then", ";">>,
       <<":", "u", "5", "0", "do", "0", "t", "loop", ";">>, <<"u", ".s">> >>
UserWordsScript ==
    << <<":", "a", "7", ".", ";">>, <<":", "b", "a", ";">>, <<".s">>, <<"b">>,
       <<"VARIABLE", "x">>, <<":", "c", "x", ";">>, <<".s">> >>

Scripts ==
    { IfElseScript, LoopScript, NestedScript, UntilScript, VariableScript,
      UpperVariableScript, UnderflowScript, DuplicateScript, AbandonScript,
      CallerScript, SameLineScript, CompileErrorScript, ElseLongScript,
      ConstantScript, WhileScript, QuitScript, UnclosedScript, MakerScript,
      DotQuoteScript, CloserScript, MakerAbortScript, ControlScript, StackWordsScript, WrapScript,
      AllotScript, OverflowScript, RedefineScript,
      SelfReferenceScript, IfThenScript, DoOnceScript, FullStackScript,
      BranchFullScript, ReturnFullScript, UserWordsScript, SpinScript,
      BalanceScript, << >> }

\* The tokens of the freely chosen lines that follow a script.
Alphabet == {"+", "1", ".s", ":", ";", "foo"}
FreeLines == UNION { [1..n -> Alphabet] : n \in 1..MaxFreeTokens }

\* What the executor may find in a cell outside the code vector it was given:
\* a small number, or a value in the range it takes for the address of a Word.
GarbageCells == {0, WORD_PTR_MIN + 1}

\* ------------------------------------------------------------------------
Init ==
    /\ data_stack = <<>>
    /\ return_stack = <<>>
    /\ branch_stack = <<>>
    /\ dict = forth_init_dict
    /\ memory = [a \in {} |-> 0]
    /\ next_mem_addr = 0
    /\ state = 0
    /\ code_buffer = [a \in {} |-> 0]
    /\ code_sp = 0
    /\ current_word = NO_WORD
    /\ input = <<>>
    /\ out = ""
    /\ err = <<>>
    /\ tok_err = FALSE
    /\ line_err = FALSE
    /\ script \in Scripts
    /\ lines = script
    /\ free = MaxFreeTokens
    /\ frames = <<>>
    /\ exec_steps = 0
    /\ exec_err = FALSE
    /\ oob = FALSE
    /\ halt = "no"
    /\ incr_first \in BOOLEAN
    /\ layout = "unknown"

\* ------------------------------------------------------------------------
\* repl: reading lines
Idle == halt = "no" /\ frames = <<>>

\* fgets delivers the next scripted line; the line `quit` ends the session.
ReadScriptLine ==
    /\ Idle
    /\ input = <<>>
    /\ lines # <<>>
    /\ lines' = Tail(lines)
    /\ IF Head(lines) = <<"quit">>
       THEN halt' = "quit" /\ UNCHANGED <<input, line_err>>
       ELSE halt' = halt /\ input' = Head(lines) /\ line_err' = FALSE
    /\ UNCHANGED <<data_stack, return_stack, branch_stack, dict, memory, next_mem_addr,
                   state, code_buffer, code_sp, current_word, out, err, tok_err,
                   free, frames, exec_steps, exec_err, oob, incr_first, layout,
                   script>>

\* fgets delivers a line the user types after the script.
ReadFreeLine ==
    /\ Idle
    /\ input = <<>>
    /\ lines = <<>>
    /\ \E l \in FreeLines :
          /\ Len(l) <= free
          /\ input' = l
          /\ free' = free - Len(l)
    /\ line_err' = FALSE
    /\ UNCHANGED <<data_stack, return_stack, branch_stack, dict, memory, next_mem_addr,
                   state, code_buffer, code_sp, current_word, out, err, tok_err,
                   lines, frames, exec_steps, exec_err, oob, halt, incr_first, layout,
                   script>>

\* execute_word(word) called by repl: a built-in runs its handler to completion,
\* a user-defined word starts an activation at cell 0.
ReplExecute(m, k) ==
    IF m.dict[k].func # NULL
    THEN \E u \in Uninit(m.dict[k]) :
            /\ Install(CallFunc(m.dict[k].func, m, u))
            /\ frames' = <<>>
    ELSE /\ Install(m)
         /\ frames' = <<[word |-> k, i |-> 0, rsp |-> Len(m.return_stack),
                         errs |-> Len(m.err)]>>

\* dict_find(name) reaches a slot of dict.words that holds no address of a Word
\* before it finds the name: strcmp reads through it and the process dies.
LookupDies(m, name) ==
    \/ \E j \in 1..Len(m.dict) :
          /\ m.dict[j] = Smashed
          /\ \A i \in 1..(j - 1) : m.dict[i].name # name
    \* semicolon copies the code through a current_word that points nowhere
    \/ m.current_word = WILD_WORD /\ name = ";" /\ m.state # 0
Died ==
    /\ halt' = "crash"
    /\ input' = Tail(input)
    /\ UNCHANGED <<data_stack, return_stack, branch_stack, dict, memory, next_mem_addr,
                   state, code_buffer, code_sp, current_word, out, err, tok_err,
                   line_err, lines, free, frames, exec_steps, exec_err, oob,
                   incr_first, layout, script>>

\* One token in interpret mode (the else of `if (state == 1)` in repl).
Interpret ==
    /\ Idle
    /\ input # <<>>
    /\ state # 1
    /\ IF LookupDies(Machine, Head(input))
       THEN Died
       ELSE /\ LET t == tokenize([Machine EXCEPT !.tok_err = FALSE])
                   k == dict_find(t.m, t.v)
               IN IF k # 0
                  THEN ReplExecute(t.m, k)
                  ELSE /\ frames' = <<>>
                       /\ IF IsNumber(t.v)
                          THEN Install(stack_push(t.m, strtoll(t.v)))
                          ELSE Install(error(t.m, "Unknown word"))
            /\ exec_steps' = 0
            /\ exec_err' = FALSE
            /\ UNCHANGED <<lines, free, oob, halt, incr_first, script>>

\* error(...); state = 0; current_word = NULL; break;  in the compile branch
CompileAbort(m, msg) ==
    [error(m, msg) EXCEPT !.state = 0, !.current_word = NO_WORD, !.input = <<>>]

\* The layouts a handler may find around code_buffer: the one an earlier store
\* outside the array met, or either one.
Layouts == IF layout = "unknown" THEN {"vars", "arena"} ELSE {layout}

\* One token in compile mode (state == 1).
Compile ==
    /\ Idle
    /\ input # <<>>
    /\ state = 1
    /\ IF LookupDies(Machine, Head(input))
       THEN Died
       ELSE /\ \E l \in Layouts :
               LET t == tokenize([Machine EXCEPT !.tok_err = FALSE, !.layout = l])
                   k == dict_find(t.m, t.v)
               IN IF k # 0
                  THEN IF t.m.dict[k].immediate
                       THEN ReplExecute(t.m, k)
                       ELSE /\ frames' = <<>>
                            /\ IF t.m.code_sp >= STACK_SIZE
                               THEN Install(CompileAbort(t.m, "Code buffer overflow"))
                               ELSE Install(Emit(t.m, WordPtr(k)))
                  ELSE /\ frames' = <<>>
                       /\ IF IsNumber(t.v)
                          THEN IF t.m.code_sp >= STACK_SIZE - 1
                               THEN Install(CompileAbort(t.m, "Code buffer overflow"))
                               ELSE Install(Emit(Emit(t.m, OP_LIT), strtoll(t.v)))
                          ELSE Install(CompileAbort(t.m, "Unknown word in compilation"))
            /\ exec_steps' = 0
            /\ exec_err' = FALSE
            /\ UNCHANGED <<lines, free, oob, halt, incr_first, script>>

\* ------------------------------------------------------------------------
\* execute_word on a user-defined word: the for loop over word->code, one
\* dispatched cell per step.  The innermost activation is the last frame.
Top == frames[Len(frames)]
TopCode == dict[Top.word].code
InCode(i) == 0 <= i /\ i < Len(TopCode)
\* word->code[i]: the cell, or whatever lies there when i is outside the vector
CodeAt(i) == IF InCode(i) THEN {TopCode[i + 1]} ELSE GarbageCells

\* i < word->code_size holds and the cell at i is dispatched
Dispatching ==
    /\ halt = "no"
    /\ frames # <<>>
    /\ Top.i < Len(TopCode)
    /\ exec_steps < MaxExecSteps

\* The loop's i++ after the branch of the dispatch set i to `at`.
Goto(at) == frames' = [frames EXCEPT ![Len(frames)].i = at + 1]

\* What every dispatch step does to the bookkeeping; `read` are the indices read.
Dispatched(m, read) ==
    /\ Install(m)
    /\ exec_steps' = exec_steps + 1
    /\ exec_err' = (exec_err \/ Len(m.err) > Len(err))
    /\ oob' = (oob \/ \E i \in read : ~InCode(i))
    /\ UNCHANGED <<lines, free, incr_first, script>>

ExecLit ==
    /\ Dispatching
    /\ \E item \in CodeAt(Top.i) :
          /\ item = OP_LIT
          /\ \E value \in CodeAt(Top.i + 1) :
                Dispatched(stack_push(Machine, value), {Top.i, Top.i + 1})
    /\ Goto(Top.i + 1)
    /\ halt' = halt

ExecBranch ==
    /\ Dispatching
    /\ \E item \in CodeAt(Top.i) :
          /\ item = OP_BRANCH
          /\ \E offset \in CodeAt(Top.i + 2) :
                /\ Dispatched(Machine, {Top.i, Top.i + 2})
                /\ Goto(Top.i + 2 + offset - 1)
    /\ halt' = halt

Exec0Branch ==
    /\ Dispatching
    /\ \E item \in CodeAt(Top.i) :
          /\ item = OP_0BRANCH
          /\ \E offset \in CodeAt(Top.i + 2) :
                LET top == stack_pop(Machine)
                IN /\ Dispatched(top.m, {Top.i, Top.i + 2})
                   /\ IF top.v = 0
                      THEN Goto(Top.i + 2 + offset - 1)
                      ELSE Goto(Top.i + 2)
    /\ halt' = halt

ExecDo ==
    /\ Dispatching
    /\ \E item \in CodeAt(Top.i) :
          /\ item = OP_DO
          /\ LET start == stack_pop(Machine)
                 limit == stack_pop(start.m)
             IN Dispatched(rstack_push(rstack_push(limit.m, limit.v), start.v), {Top.i})
    /\ Goto(Top.i)
    /\ halt' = halt

\* ExecLoop mutated to go round again when the incremented index equals the limit
ExecLoop_inclusive ==
    /\ Dispatching
    /\ \E item \in CodeAt(Top.i) :
          /\ item = OP_LOOP
          /\ LET index == rstack_pop(Machine)
                 limit == rstack_peek(index.m)
             IN IF index.v + 1 <= limit.v
                THEN \E offset \in CodeAt(Top.i + 2) :
                        /\ Dispatched(rstack_push(limit.m, index.v + 1), {Top.i, Top.i + 2})
                        /\ Goto(Top.i + 2 + offset - 1)
                ELSE /\ Dispatched(rstack_pop(limit.m).m, {Top.i})
                     /\ Goto(Top.i)
    /\ halt' = halt

ExecLoop ==
    /\ Dispatching
    /\ \E item \in CodeAt(Top.i) :
          /\ item = OP_LOOP
          /\ LET index == rstack_pop(Machine)
                 limit == rstack_peek(index.m)
             IN IF index.v + 1 < limit.v
                THEN \E offset \in CodeAt(Top.i + 2) :
                        /\ Dispatched(rstack_push(limit.m, index.v + 1), {Top.i, Top.i + 2})
                        /\ Goto(Top.i + 2 + offset - 1)
                ELSE /\ Dispatched(rstack_pop(limit.m).m, {Top.i})
                     /\ Goto(Top.i)
    /\ halt' = halt

IsOpcode(item) == item \in {OP_LIT, OP_BRANCH, OP_0BRANCH, OP_DO, OP_LOOP}

\* A cell in the range taken for a Word address.  The address of a dictionary
\* entry executes that word; any other value is dereferenced as if it were one:
\* the process dies, or the bytes found there fail the name check.
ExecWord ==
    /\ Dispatching
    /\ \E item \in CodeAt(Top.i) :
          /\ ~IsOpcode(item)
          /\ item > WORD_PTR_MIN
          /\ IF IsWordPtr(Machine, item)
             THEN LET k == item - WORD_BASE
                  IN IF dict[k].func # NULL
                     THEN /\ \E u \in Uninit(dict[k]) :
                                Dispatched(CallFunc(dict[k].func, Machine, u), {Top.i})
                          /\ Goto(Top.i)
                          /\ halt' = halt
                     ELSE /\ Dispatched(Machine, {Top.i})
                          /\ frames' = Append(frames,
                                              [word |-> k, i |-> 0,
                                               rsp |-> Len(return_stack),
                                               errs |-> Len(err)])
                          /\ halt' = halt
             ELSE \/ /\ Dispatched(Machine, {Top.i})
                     /\ halt' = "crash"
                     /\ frames' = frames
                  \/ /\ Dispatched(error(Machine, "Invalid word reference"), {Top.i})
                     /\ Goto(Top.i)
                     /\ halt' = halt

\* Any other cell is pushed as a number.
ExecSmall ==
    /\ Dispatching
    /\ \E item \in CodeAt(Top.i) :
          /\ ~IsOpcode(item)
          /\ item <= WORD_PTR_MIN
          /\ Dispatched(stack_push(Machine, item), {Top.i})
    /\ Goto(Top.i)
    /\ halt' = halt

\* i reached code_size: execute_word returns, and the caller's loop does its i++.
ExecReturn ==
    /\ halt = "no"
    /\ frames # <<>>
    /\ Top.i >= Len(TopCode)
    /\ frames' = IF Len(frames) = 1
                 THEN <<>>
                 ELSE [SubSeq(frames, 1, Len(frames) - 1)
                          EXCEPT ![Len(frames) - 1].i = @ + 1]
    /\ UNCHANGED <<mvars, lines, free, exec_steps, exec_err, oob, halt, incr_first,
                   layout, script>>

Next ==
    \/ ReadScriptLine
    \/ ReadFreeLine
    \/ Interpret
    \/ Compile
    \/ ExecLit
    \/ ExecBranch
    \/ Exec0Branch
    \/ ExecDo
    \/ ExecLoop
    \/ ExecWord
    \/ ExecSmall
    \/ ExecReturn

Spec == Init /\ [][Next]_vars

\* ========================================================================
\* Properties
\* ========================================================================

\* The scripted lines are still being processed (no freely chosen line yet).
InScript == free = MaxFreeTokens
\* The script has been processed to its end and repl waits for the next line.
ScriptDone == InScript /\ Idle /\ lines = <<>> /\ input = <<>>

\* C1: with `: T dup 0 < if -1 else 1 then ;`, `-7 T .` prints `-1 `, `0 T .`
\* prints `1 ` and `42 T .` prints `1 `: a zero flag runs exactly the else part,
\* from its first cell, and a non-zero flag exactly the if part.
C1_IfElseSelectsBranch ==
    (script = IfElseScript /\ ScriptDone) => out = "-1 1 1 "

\* C2: `: T 10 0 do i . loop ;` then `T` prints `0 1 2 3 4 5 6 7 8 9 ` and
\* nothing else.
C2_LoopPrintsIndices ==
    (script = LoopScript /\ ScriptDone) => out = "0 1 2 3 4 5 6 7 8 9 "

\* C3: in a DO...LOOP nested in another, i is the inner index and j the outer
\* one: `: T 3 0 do 2 0 do j i + . loop loop ;` then `T` prints `0 1 1 2 2 3 `.
C3_NestedLoopIndices ==
    (script = NestedScript /\ ScriptDone) => out = "0 1 1 2 2 3 "

C5_VariableStoreFetch ==
    (script = VariableScript /\ ScriptDone) => out = "42 "

\* C6: after any error, at the moment the next token is read, the three stacks
\* are empty, the mode is Interpreting, there is no current word and the compile
\* cursor is 0.
Baseline ==
    /\ data_stack = <<>>
    /\ return_stack = <<>>
    /\ branch_stack = <<>>
    /\ state = 0
    /\ current_word = NO_WORD
    /\ code_sp = 0
C6_ErrorLeavesBaseline ==
    (Idle /\ tok_err) => Baseline

\* C7: after a line in which an error fired, the next line gives the output and
\* the data stack it gives on a freshly initialised interpreter holding the same
\* definitions.  Checked on the next lines that consist of one built-in word.
ProbeWords == {".s", "dup", "+", "i", "."}
Fresh(m) ==
    [m EXCEPT !.data_stack = <<>>, !.return_stack = <<>>, !.branch_stack = <<>>,
              !.state = 0, !.code_sp = 0, !.current_word = NO_WORD,
              !.memory = [a \in {} |-> 0]]
RunBuiltin(m, name) == CallFunc(m.dict[dict_find(m, name)].func, m, FALSE)
SameAsFresh(name) ==
    LET here == RunBuiltin(Machine, name)
        fresh == RunBuiltin(Fresh(Machine), name)
    IN here.out = fresh.out /\ here.data_stack = fresh.data_stack
C7_NextLineAsOnFresh ==
    (Idle /\ input = <<>> /\ line_err) => \A name \in ProbeWords : SameAsFresh(name)

\* C8: once an error was raised while a token of a line was processed, no later
\* token of that line is executed or compiled.
C8_RestOfLineDiscarded ==
    [][line_err => ~(Interpret \/ Compile)]_vars

\* C9: once an error was raised while a compiled word executes, no further cell
\* of any code vector is dispatched before the next token is read.
Dispatch ==
    ExecLit \/ ExecBranch \/ Exec0Branch \/ ExecDo \/ ExecLoop \/ ExecWord \/ ExecSmall
C9_ErrorAbandonsWord ==
    [][exec_err => ~Dispatch]_vars

\* C10: `:` followed by a name the dictionary already holds raises "Word already
\* exists", adds nothing to the dictionary and does not start a definition; and
\* whatever is added to the dictionary later, looking a defined name up yields
\* the same entry with the same code.  (A slot of dict.words overwritten from
\* outside the dictionary is the matter of C24.)
ColonOnExisting ==
    /\ Interpret \/ Compile
    /\ Len(input) >= 2
    /\ input[1] = ":"
    /\ dict_find(Machine, input[2]) # 0
LookupStable ==
    Len(dict') > Len(dict) =>
        \A k \in 1..Len(dict) :
            LET name == dict[k].name
                found == dict_find(Machine, name)
            IN /\ dict_find([dict |-> dict'], name) = found
               /\ dict'[found] = dict[found]
C10_DuplicateRejected ==
    [][/\ ColonOnExisting =>
             /\ err' = Append(err, "Word already exists")
             /\ dict' = dict
             /\ state' = 0
             /\ current_word' = NO_WORD
       /\ LookupStable]_vars

C10_Witness ==
    /\ script = DuplicateScript
    /\ ScriptDone
    /\ \E n \in 1..Len(err) : err[n] = "Word already exists"
    /\ dict[dict_find(Machine, "foo")].code = <<OP_LIT, 1>>
    /\ out = "1 "

\* repl processes the token tok in interpret mode, in compile mode.
Interprets(tok) == input # <<>> /\ Head(input) = tok /\ Interpret
Compiles(tok) == input # <<>> /\ Head(input) = tok /\ Compile

\* C11: `;` run in compile mode while the branch stack is not empty (an if,
\* begin, while or do is still open) raises an error and adds no word to the
\* dictionary.
C11_SemicolonNeedsClosed ==
    [][(Compiles(";") /\ branch_stack # <<>>) =>
           (Len(err') > Len(err) /\ dict' = dict)]_vars

\* C12: `:` clears the branch stack, so that the records an earlier definition
\* left there cannot reach the `;` of a well-formed definition.
C12_ColonClearsBranchStack ==
    [][(Interprets(":") \/ Compiles(":")) => branch_stack' = <<>>]_vars

\* C13: while a definition is being compiled, its name is not findable in the
\* dictionary.
C13_NameHiddenWhileCompiling ==
    state = 1 => dict_find(Machine, current_word.name) = 0

\* the cell at k of the compile buffer after the step
NewBufAt(k) == BufAt([code_buffer |-> code_buffer', memory |-> memory'], k)
\* C14: in compile mode, while the compile buffer has room, a token naming a
\* non-immediate word appends exactly one cell, the reference to that word, and a
\* numeric token naming no word appends exactly LIT and the number it denotes;
\* the data stack, the return stack, the branch stack, the memory arena, the
\* free cursor and the dictionary stay as they are, nothing is printed and the
\* mode stays Compiling.
CompileFrame ==
    /\ UNCHANGED <<data_stack, return_stack, branch_stack, memory, next_mem_addr,
                   dict, out, err, current_word>>
    /\ state' = 1
    /\ \A a \in DOMAIN code_buffer : a < code_sp => NewBufAt(a) = code_buffer[a]
C15_DotQuoteDeferred ==
    [][Compiles(".\"") => out' = out]_vars

\* The token repl is about to compile fails: it names no word and is no number,
\* or it is a closer and the opener it needs is not on top of the branch stack.
TopType(n) ==
    IF Len(branch_stack) >= n THEN branch_stack[Len(branch_stack) - n + 1].type ELSE "none"
CloserFails(tok) ==
    \/ tok = "then" /\ TopType(1) \notin {"CF_IF", "CF_ELSE"}
    \/ tok = "else" /\ TopType(1) # "CF_IF"
    \/ tok \in {"until", "while"} /\ TopType(1) # "CF_BEGIN"
    \/ tok = "repeat" /\ (TopType(1) # "CF_WHILE" \/ TopType(2) # "CF_BEGIN")
    \/ tok = "loop" /\ TopType(1) # "CF_DO"
CompileFails ==
    /\ Compile
    /\ \/ dict_find(Machine, Head(input)) = 0 /\ ~IsNumber(Head(input))
       \/ CloserFails(Head(input))

\* C16: any failure during compilation (an unknown non-numeric token, a closer
\* without its opener on top of the branch stack) raises an error, returns the
\* mode to Interpreting and adds nothing to the dictionary, and the name of the
\* word under definition is undefined afterwards.
C16_FailedDefinitionLeavesNoName ==
    [][CompileFails =>
          /\ Len(err') > Len(err)
          /\ state' = 0
          /\ current_word' = NO_WORD
          /\ dict' = dict
          /\ dict_find(Machine, current_word.name) = 0]_vars

\* C17: in Interpreting mode each of if, else, then, begin, until, while,
\* repeat, do, loop and `;` raises an error, writes no cell to the compile buffer,
\* pushes no record on the branch stack and leaves the mode Interpreting.
ControlWords ==
    {"if", "else", "then", "begin", "until", "while", "repeat", "do", "loop", ";"}
C17_ControlWordsCompileOnly ==
    [][\A tok \in ControlWords :
          (state = 0 /\ Interprets(tok)) =>
             /\ Len(err') = Len(err) + 1
             /\ code_buffer' = code_buffer
             /\ code_sp' = code_sp
             /\ branch_stack' = <<>>
             /\ state' = 0]_vars

C17_Witness ==
    /\ script = ControlScript
    /\ ScriptDone
    /\ Len(err) = 10
    /\ err[8] = "DO used outside of compilation mode"
    /\ err[10] = "Misplaced ;"
    /\ DOMAIN code_buffer = {}
    /\ branch_stack = <<>>
    /\ state = 0

\* The primitives with a declared stack effect ( inputs -- outputs ): how many
\* cells each takes and how many it leaves.
Takes ==
    [w \in {"+", "-", "*", "/", "mod", "swap", "over", "nip", "tuck", "=", "<", ">",
            "<=", ">=", "<>", "and", "or", "!"} |-> 2]
    @@ [w \in {"dup", "drop", "not", "@", "cells", "allot", "."} |-> 1]
    @@ [w \in {"rot"} |-> 3]
Leaves ==
    [w \in {"+", "-", "*", "/", "mod", "nip", "=", "<", ">", "<=", ">=", "<>", "and",
            "or", "not", "@", "cells"} |-> 1]
    @@ [w \in {"drop", "!", "allot", "."} |-> 0]
    @@ [w \in {"dup", "swap"} |-> 2]
    @@ [w \in {"over", "rot", "tuck"} |-> 3]
Primitives == DOMAIN Takes
StackWords == {"dup", "drop", "swap", "over", "rot", "nip", "tuck"}
\* The declared arrangement of a stack word, for the operands s (top last).
Arrangement(w, s) ==
    CASE w = "dup" -> <<s[1], s[1]>>
      [] w = "drop" -> <<>>
      [] w = "swap" -> <<s[2], s[1]>>
      [] w = "over" -> <<s[1], s[2], s[1]>>
      [] w = "rot" -> <<s[2], s[3], s[1]>>
      [] w = "nip" -> <<s[2]>>
      [] w = "tuck" -> <<s[2], s[1], s[2]>>

\* The primitive w runs: repl executes the token w, or a compiled word's cell
\* refers to it.
Runs(w) ==
    \/ Interprets(w)
    \/ /\ frames # <<>>
       /\ InCode(Top.i)
       /\ IsWordPtr(Machine, TopCode[Top.i + 1])
       /\ dict[TopCode[Top.i + 1] - WORD_BASE].name = w
       /\ dict[TopCode[Top.i + 1] - WORD_BASE].func # NULL
       /\ ExecWord
Depth == Len(data_stack)
Below(w) == SubSeq(data_stack, 1, Depth - Takes[w])
Operands(w) == SubSeq(data_stack, Depth - Takes[w] + 1, Depth)
DeclaredEffect(w) ==
    /\ Len(data_stack') = Depth - Takes[w] + Leaves[w]
    /\ SubSeq(data_stack', 1, Depth - Takes[w]) = Below(w)
    /\ w \in StackWords => data_stack' = Below(w) \o Arrangement(w, Operands(w))

\* C18 as stated: every primitive run with enough operands on the data stack
\* changes the depth by exactly its declared effect, leaves the cells below its
\* operands unchanged, and the stack words leave exactly the declared arrangement.
C18_EveryRunHasDeclaredEffect ==
    [][\A w \in Primitives : (Runs(w) /\ Depth >= Takes[w]) => DeclaredEffect(w)]_vars

\* C18 as amended: the same for every such run that raises no error; and a run
\* with enough operands raises an error only for `/` and `mod` with divisor 0 and
\* for `!` and `@` with an address outside [0, STACK_SIZE).
RaisesError == Len(err') > Len(err)
C18_DeclaredEffectUnlessError ==
    [][\A w \in Primitives :
          (Runs(w) /\ Depth >= Takes[w]) =>
             /\ ~RaisesError => DeclaredEffect(w)
             /\ RaisesError =>
                   \/ w \in {"/", "mod"} /\ data_stack[Depth] = 0
                   \/ w \in {"!", "@"} /\ data_stack[Depth] \notin 0..(STACK_SIZE - 1)]_vars

C18_Witness ==
    /\ script = StackWordsScript
    /\ data_stack = <<2, 1, 4, 1, 4>>
    /\ input = <<>>
    /\ err = <<>>

\* The cells of the arena that differ after the step.
MemoryChanged == \E a \in 0..(STACK_SIZE - 1) : MemAt([memory |-> memory'], a) # MemAt(Machine, a)

\* C19: for every cell a outside [0, STACK_SIZE), also one that differs from an
\* in-range address by a multiple of 2^IntBits, `v a !` changes no memory cell
\* and raises an error, and `a @` raises an error.
C19_OutOfRangeAddressRejected ==
    [][\A w \in {"!", "@"} :
          (Runs(w) /\ Depth >= Takes[w] /\ data_stack[Depth] \notin 0..(STACK_SIZE - 1)) =>
             (RaisesError /\ ~MemoryChanged)]_vars

\* C20: the free cursor never decreases.
C20_FreeCursorMonotonic ==
    [][next_mem_addr' >= next_mem_addr]_vars

\* C21: the compile cursor never exceeds the capacity of the compile buffer, so
\* that no cell is written past its end (a token that would do so raises "Code
\* buffer overflow" instead).
C21_CompileCursorBounded ==
    code_sp <= STACK_SIZE

\* C22: no two dictionary entries have the same name.
C22_NamesUnique ==
    \A j, k \in 1..Len(dict) : j # k => dict[j].name # dict[k].name

\* C23: looking a name up yields, of the entries that have it, the one added
\* last.
C23_LookupFindsNewest ==
    \A k \in 1..Len(dict) : dict_find(Machine, dict[k].name) >= k

\* C24: no step changes the name, the kind or the code vector of an entry the
\* dictionary holds, or removes an entry.
C24_EntriesImmutable ==
    [][dict' # dict =>
          /\ Len(dict') >= Len(dict)
          /\ \A k \in 1..Len(dict) :
                /\ dict'[k].name = dict[k].name
                /\ dict'[k].func = dict[k].func
                /\ dict'[k].code = dict[k].code]_vars

\* C25: in the body of a definition the name of the word being defined is
\* accepted: it raises no error, appends one cell (the reference to that word)
\* and leaves the mode Compiling.
C25_SelfReferenceAccepted ==
    [][(state = 1 /\ Compiles(current_word.name)) =>
          (err' = err /\ state' = 1 /\ code_sp' = code_sp + 1)]_vars

\* The executor dispatches a LOOP cell with index and limit on the return stack
\* and the incremented index is not below the limit.
LoopExits ==
    /\ frames # <<>>
    /\ InCode(Top.i)
    /\ TopCode[Top.i + 1] = OP_LOOP
    /\ Len(return_stack) >= 2
    /\ return_stack[Len(return_stack)] + 1 >= return_stack[Len(return_stack) - 1]
    /\ ExecLoop

\* C26: a LOOP whose test fails removes index and limit from the return stack,
\* leaves the data stack as it was, and execution continues at the first cell
\* after the LOOP's offset operand.
C26_LoopExitSkipsOperands ==
    [][LoopExits =>
          /\ return_stack' = SubSeq(return_stack, 1, Len(return_stack) - 2)
          /\ data_stack' = data_stack
          /\ frames' = [frames EXCEPT ![Len(frames)].i = Top.i + 3]]_vars

\* The executor dispatches a 0BRANCH cell that lies, with its operands, in the
\* code vector, and the data stack holds a flag.
ZeroBranchRuns ==
    /\ frames # <<>>
    /\ InCode(Top.i)
    /\ InCode(Top.i + 2)
    /\ TopCode[Top.i + 1] = OP_0BRANCH
    /\ data_stack # <<>>
    /\ Exec0Branch
\* the index of the cell the executor dispatches next in the same activation
NextCell == frames'[Len(frames)].i
PopsFlag ==
    /\ Len(frames') = Len(frames)
    /\ data_stack' = SubSeq(data_stack, 1, Len(data_stack) - 1)
\* `then` is compiled and the record on top of the branch stack is that of an if
ThenClosesIf ==
    /\ state = 1
    /\ branch_stack # <<>>
    /\ branch_stack[Len(branch_stack)].type = "CF_IF"
    /\ Compiles("then")

\* C27: `then` makes the offset of its `if` lead to the first cell compiled after
\* `then` (the compile cursor at `then`), leaving the cells of the 0BRANCH and of
\* A as they are; the 0BRANCH pops one flag and goes on, for a zero flag, at the
\* cell its offset leads to (no cell of A is dispatched) and, for a non-zero
\* flag, at the first cell of A, three cells on.  So `: T if 7 . then 8 . ;`
\* prints `8 ` for `0 T` and `7 8 ` for `1 T`.
C27_IfThenSkipsOrRuns ==
    [][/\ ThenClosesIf =>
             LET origin == branch_stack[Len(branch_stack)].origin
             IN /\ origin + 2 + NewBufAt(origin + 2) = code_sp
                /\ code_sp' = code_sp
                /\ \A a \in 0..(code_sp - 1) : a # origin + 2 => NewBufAt(a) = BufAt(Machine, a)
                /\ branch_stack' = SubSeq(branch_stack, 1, Len(branch_stack) - 1)
                /\ err' = err
       /\ ZeroBranchRuns =>
             /\ PopsFlag
             /\ data_stack[Len(data_stack)] = 0 =>
                   NextCell = Top.i + 2 + TopCode[Top.i + 3]
             /\ data_stack[Len(data_stack)] # 0 => NextCell = Top.i + 3
       /\ (script = IfThenScript /\ ScriptDone) => out = "8 7 8 < > "]_vars

C27_Witness ==
    /\ script = IfThenScript
    /\ ScriptDone
    /\ out = "8 7 8 < > "
    /\ dict[Len(dict)].name = "T"
    /\ SubSeq(dict[Len(dict)].code, 1, 4) = <<OP_0BRANCH, OP_LIT, 4, OP_LIT>>
    /\ err = <<>>

\* the record n below the top of the branch stack (n = 0: the top)
BranchRecord(n) == branch_stack[Len(branch_stack) - n]
\* `until` is compiled and the record on top of the branch stack is that of a begin
UntilClosesBegin ==
    /\ state = 1
    /\ TopType(1) = "CF_BEGIN"
    /\ Compiles("until")

\* C28: `until` compiles a 0BRANCH whose offset leads, for a zero flag, to exactly
\* the first cell of B (the position `begin` recorded); for a non-zero flag the
\* 0BRANCH goes on at the first cell after its offset operand.
C28_UntilBranchesToBegin ==
    [][/\ UntilClosesBegin =>
             /\ code_sp' = code_sp + 3
             /\ NewBufAt(code_sp) = OP_0BRANCH
             /\ code_sp + 2 + NewBufAt(code_sp + 2) = BranchRecord(0).origin
       /\ ZeroBranchRuns =>
             /\ data_stack[Len(data_stack)] = 0 =>
                   NextCell = Top.i + 2 + TopCode[Top.i + 3]
             /\ data_stack[Len(data_stack)] # 0 => NextCell = Top.i + 3]_vars

\* `repeat` is compiled and the branch stack holds the records of a while (on top)
\* and of a begin (below it)
RepeatClosesLoop ==
    /\ state = 1
    /\ TopType(1) = "CF_WHILE"
    /\ TopType(2) = "CF_BEGIN"
    /\ Compiles("repeat")

\* C29: `repeat` pops the records of the while and of the begin; it compiles a
\* BRANCH whose offset leads to the first cell of C (the position `begin`
\* recorded) and makes the offset of the while's 0BRANCH lead to the first cell
\* compiled after that BRANCH.
C29_RepeatClosesWhile ==
    [][RepeatClosesLoop =>
          /\ branch_stack' = SubSeq(branch_stack, 1, Len(branch_stack) - 2)
          /\ code_sp' = code_sp + 3
          /\ NewBufAt(code_sp) = OP_BRANCH
          /\ code_sp + 2 + NewBufAt(code_sp + 2) = BranchRecord(1).origin
          /\ BranchRecord(0).origin + 2 + NewBufAt(BranchRecord(0).origin + 2)
                = code_sp + 3]_vars

\* The executor dispatches a DO cell of a code vector with start and limit on
\* the data stack and room for both on the return stack.
DoRuns ==
    /\ frames # <<>>
    /\ InCode(Top.i)
    /\ TopCode[Top.i + 1] = OP_DO
    /\ Len(data_stack) >= 2
    /\ Len(return_stack) + 2 <= STACK_SIZE
    /\ ExecDo

\* C30: DO makes no test: it moves limit and start to the return stack and goes
\* on at the first cell of the body, whatever the two are; a LOOP that finds the
\* incremented index not below the limit removes both from the return stack and
\* does not go back.  So a loop entered with start greater than the limit
\* (`3 5 do 7 . loop`) or equal to it (`5 5 do 8 . loop`) runs its body once and
\* leaves the return stack empty.
C30_BodyRunsOnce ==
    [][/\ DoRuns =>
             /\ return_stack' = return_stack \o <<data_stack[Len(data_stack) - 1],
                                                   data_stack[Len(data_stack)]>>
             /\ data_stack' = SubSeq(data_stack, 1, Len(data_stack) - 2)
             /\ Len(frames') = Len(frames)
             /\ NextCell = Top.i + 1
       /\ LoopExits =>
             /\ return_stack' = SubSeq(return_stack, 1, Len(return_stack) - 2)
             /\ Len(frames') = Len(frames)
             /\ NextCell > Top.i
       /\ (script = DoOnceScript /\ ScriptDone) =>
             (out = "7 8 " /\ return_stack = <<>> /\ err = <<>>)]_vars

C30_Witness ==
    /\ script = DoOnceScript
    /\ ScriptDone
    /\ out = "7 8 "
    /\ return_stack = <<>>
    /\ dict[Len(dict)].name = "U"
    /\ dict[Len(dict)].code[5] = OP_DO
    /\ dict[Len(dict)].code[9] = OP_LOOP

\* The first message the step adds to stderr is msg.
Raises(msg) == Len(err') > Len(err) /\ err'[Len(err) + 1] = msg
\* The executor dispatches, inside the code vector, the opcode op.
Dispatches(op) == frames # <<>> /\ InCode(Top.i) /\ TopCode[Top.i + 1] = op
DepthsWithinCapacity(ds, rs, bs) ==
    /\ Len(ds) \in 0..STACK_SIZE
    /\ Len(rs) \in 0..STACK_SIZE
    /\ Len(bs) \in 0..STACK_SIZE

\* C31: the depths of the data stack, the return stack and the branch stack stay
\* within 0..STACK_SIZE; a push on a full stack raises its overflow error (a
\* number typed on a full data stack, DO on a return stack with less than two
\* free cells, if, begin and do on a full branch stack); a pop or peek on an empty
\* stack raises its underflow error (a primitive, 0BRANCH or DO on an empty data
\* stack, `i` and LOOP on an empty return stack, `j` on a return stack of fewer
\* than three cells).
C31_StacksBounded ==
    [][/\ DepthsWithinCapacity(data_stack, return_stack, branch_stack)
       /\ DepthsWithinCapacity(data_stack', return_stack', branch_stack')
       /\ (Len(data_stack) = STACK_SIZE /\ input # <<>> /\ IsNumber(Head(input))
             /\ dict_find(Machine, Head(input)) = 0 /\ Interpret) =>
             Raises("Stack overflow")
       /\ (Len(return_stack) > STACK_SIZE - 2 /\ Dispatches(OP_DO)
             /\ Len(data_stack) >= 2 /\ ExecDo) =>
             Raises("Return stack overflow")
       /\ (Len(branch_stack) = STACK_SIZE /\ state = 1
             /\ (Compiles("if") \/ Compiles("begin") \/ Compiles("do"))) =>
             Raises("Branch stack overflow")
       /\ \A w \in Primitives : (Depth = 0 /\ Runs(w)) => Raises("Stack underflow")
       /\ (Depth = 0 /\ (Dispatches(OP_0BRANCH) \/ Dispatches(OP_DO))
             /\ (Exec0Branch \/ ExecDo)) =>
             Raises("Stack underflow")
       /\ (return_stack = <<>> /\ Runs("i")) => Raises("Return stack underflow")
       /\ (Len(return_stack) < 3 /\ Runs("j")) => Raises("Return stack underflow")
       /\ (return_stack = <<>> /\ Dispatches(OP_LOOP) /\ ExecLoop) =>
             Raises("Return stack underflow")]_vars

C31_Witness ==
    /\ script = ReturnFullScript
    /\ lines = << <<"i", ".">> >>
    /\ input = <<".s">>
    /\ err = <<"Return stack overflow">>
    /\ return_stack = <<1>>
    /\ data_stack = <<>>

\* C32: in compile mode a token that names a user-defined word (one made by `:`,
\* VARIABLE, CONSTANT or CREATE) is compiled as a reference to that word and the
\* word is not executed.
C32_UserWordsCompiled ==
    [][(state = 1 /\ input # <<>> /\ dict_find(Machine, Head(input)) # 0
          /\ dict[dict_find(Machine, Head(input))].func = NULL
          /\ code_sp < STACK_SIZE /\ Compile) =>
             /\ code_sp' = code_sp + 1
             /\ NewBufAt(code_sp) = WordPtr(dict_find(Machine, Head(input)))
             /\ frames' = <<>>
             /\ UNCHANGED <<data_stack, out, err, state>>]_vars

\* C33: at every reachable state the mode is Compiling (state = 1) if and only
\* if a word is under definition (current_word is set).
C33_CompilingIffCurrentWord == (state = 1) <=> (current_word # NO_WORD)

\* C34: whenever the mode is Interpreting (state = 0) the compile cursor code_sp
\* is 0: no cell was written to the compile buffer outside compile mode.
C34_InterpretingCursorZero == state = 0 => code_sp = 0

\* The indices of a code vector at which the compiler emitted an opcode or a
\* word reference: a number is OP_LIT and its value; if, else, while, repeat,
\* until and loop emit their opcode, an OP_LIT marker and an offset; do and a
\* word reference are one cell.
EmittedCells(c) ==
    IF c = OP_LIT THEN 2 ELSE IF c \in {OP_BRANCH, OP_0BRANCH, OP_LOOP} THEN 3 ELSE 1
RECURSIVE EmittedOpcodes(_, _)
EmittedOpcodes(code, p) ==
    IF p >= Len(code) THEN {}
    ELSE {p} \cup EmittedOpcodes(code, p + EmittedCells(code[p + 1]))

\* C35: while a compiled word runs, the cell the executor dispatches on is at an
\* index of the word's code vector where the compiler emitted an opcode or a
\* word reference (never an operand cell), and no cell was read outside the
\* vector.
C35_ExecutorStaysOnOpcodes ==
    /\ ~oob
    /\ (halt = "no" /\ frames # <<>> /\ Top.i < Len(TopCode)) =>
          Top.i \in EmittedOpcodes(TopCode, 0)

\* A script that has the token `begin` somewhere
HasBegin(s) == \E l \in 1..Len(s) : \E p \in 1..Len(s[l]) : s[l][p] = "begin"

\* C36: the run of a word defined without `begin` (straight-line code,
\* if/else/then, do/loop) terminates.  The executor is deterministic, so a
\* dispatch that leaves the activations and the whole machine as they were is
\* repeated for ever: in a run that terminates no dispatched cell does that.
C36_BeginFreeRunsTerminate ==
    [][(frames # <<>> /\ exec_steps' = exec_steps + 1 /\ frames' = frames
          /\ mvars' = mvars /\ halt' = "no") => HasBegin(script)]_vars

\* The DO and LOOP cells of a code vector are properly paired: read in order,
\* every LOOP closes a DO that is open, and none stays open.
RECURSIVE DoLoopPaired(_, _, _)
DoLoopPaired(code, p, open) ==
    IF p >= Len(code) THEN open = 0
    ELSE IF code[p + 1] = OP_DO THEN DoLoopPaired(code, p + 1, open + 1)
    ELSE IF code[p + 1] = OP_LOOP THEN open > 0 /\ DoLoopPaired(code, p + 3, open - 1)
    ELSE DoLoopPaired(code, p + EmittedCells(code[p + 1]), open)
\* ... in the word at slot k and in the compiled words it references, followed
\* through `fuel` references
RECURSIVE PairedWord(_, _)
PairedWord(k, fuel) ==
    /\ DoLoopPaired(dict[k].code, 0, 0)
    /\ fuel > 0 =>
          \A p \in EmittedOpcodes(dict[k].code, 0) :
             LET c == dict[k].code[p + 1]
             IN (IsWordPtr(Machine, c) /\ dict[c - WORD_BASE].func = NULL) =>
                   PairedWord(c - WORD_BASE, fuel - 1)

\* C37: when the run of a compiled word whose DO and LOOP are properly paired
\* (in it and in the words it references) returns and no error was raised
\* during the run, the return stack has the depth it had when the run began.
C37_ReturnStackBalanced ==
    [][(frames # <<>> /\ Len(frames') = Len(frames) - 1 /\ Len(err) = Top.errs
          /\ PairedWord(Top.word, Len(dict))) =>
             Len(return_stack) = Top.rsp]_vars

====
